---------------------------- MODULE Spec2Model ----------------------------
(***************************************************************************)
(* State-machine model of ps2spi.c: an ATtiny85 bridging a PS/2 keyboard   *)
(* to an SPI host.  The foreground (main and the functions it calls) is a  *)
(* process with a program counter; the two interrupt handlers run to       *)
(* completion as part of the environment step that raises them (AVR        *)
(* interrupts do not nest), or, when the global interrupt flag is clear,   *)
(* are left pending and run at the next sei().                             *)
(***************************************************************************)
EXTENDS Integers, Sequences, FiniteSets, TLC

(* ------------------------------------------------------------------ *)
(* Program constants                                                   *)
(* ------------------------------------------------------------------ *)
PS2_BUFF_SIZE == 32
KEY_BUFF_SIZE == 32
PS2_HK_LEDS == 237
PS2_HK_ALTCODE == 240
PS2_HK_TMDELAY == 243
PS2_HK_SCRLOCK == 1
PS2_HK_NUMLOCK == 2
PS2_HK_CAPSLOCK == 4
PS2_HK_TYPEMAT == 127
PS2_KH_ACK == 250
PS2_KH_RESEND == 254
PS2_LAST_CODE == 80
PS2_DATA == 16

(* ------------------------------------------------------------------ *)
(* Bounds of the model                                                 *)
(* ------------------------------------------------------------------ *)
\* frames the keyboard may start in one run of Spec
MaxFrames == 2
\* host exchanges in one run of Spec
MaxExchanges == 2
\* exchanges the host issues beyond the number of queued keys in SpecHost
ExtraExchanges == 2

Byte == 0..255
Ring == 0..(PS2_BUFF_SIZE - 1)

Faults == {"none", "start", "parity", "stop"}
\* frames the keyboard sends in Spec: acknowledge, a make code, and a make
\* code with each fault
KbdFrames ==
    {<<250, "none">>, <<30, "none">>,
     <<30, "start">>, <<30, "parity">>, <<30, "stop">>}
\* bytes the host shifts in
HostBytes == {165}

(* ------------------------------------------------------------------ *)
(* Bit arithmetic on uint8_t                                           *)
(* ------------------------------------------------------------------ *)
Bit(b, i) == (b \div (2 ^ i)) % 2

Ones(b) == Bit(b,0) + Bit(b,1) + Bit(b,2) + Bit(b,3)
         + Bit(b,4) + Bit(b,5) + Bit(b,6) + Bit(b,7)

\* x & 0x7f, x & 0x80
Low7(x) == x % 128
Bit7(x) == (x \div 128) * 128

(* ------------------------------------------------------------------ *)
(* The keyboard's side of the wire: a device-to-host frame is a start  *)
(* bit 0, eight data bits LSB first, an odd-parity bit and a stop bit  *)
(* 1.  A fault inverts the named bit of an otherwise valid frame.      *)
(* ------------------------------------------------------------------ *)
OddParityBit(b) == 1 - (Ones(b) % 2)

Frame(b, fault) ==
    << IF fault = "start" THEN 1 ELSE 0 >>
    \o [i \in 1..8 |-> Bit(b, i - 1)]
    \o << IF fault = "parity" THEN 1 - OddParityBit(b) ELSE OddParityBit(b) >>
    \o << IF fault = "stop" THEN 0 ELSE 1 >>

(* ------------------------------------------------------------------ *)
(* State                                                               *)
(* ------------------------------------------------------------------ *)
VARIABLES
    \* circular buffer of scan codes
    ps2_scan_codes, ps2_buffer_out, ps2_buffer_in, ps2_scan_code_count,
    \* receive state machine
    ps2_rx_state, ps2_rx_data_byte, ps2_rx_bit_count, ps2_rx_parity,
    \* key code output buffer
    key_codes, key_code_count, key_buffer_out, key_buffer_in,
    \* USI data register and the latched host byte
    USIDR, command_in,
    \* keyboard lock state (global) and main's copy of it
    kbd_lock_keys, kdb_lock_state,
    \* SREG I flag and the pending pin-change / USI overflow flags
    sreg_i, pcif, usi_oif,
    \* PS/2 lines as read from PINB
    ps2_clock, ps2_data,
    \* foreground: position, start-up command index, command phase, locals;
    \* qop is the call of ps2_recv() or write_key() in progress when it is
    \* followed statement by statement: [at, result, count], count the
    \* register that holds the counter between its load and its store
    pc, boot, cmd_phase, scan_code, temp_scan_code, wk_result, qop,
    \* locals of ps2_send: [byte, ps2_tx_parity, ps2_tx_bit_count, ps2_data_bit, result]
    tx,
    \* keyboard: mode, the frame being sent as <<byte, fault>>, its bits still
    \* to clock out, bits sampled from the host, frames it may still start
    kbd_mode, kbd_frame, kbd_bits, kbd_rx, frames,
    \* host: exchanges made, byte sent and byte received in the latest
    \* exchange, whether every exchange so far found the translator idle
    host_n, host_sent, host_last, host_pure,
    \* observation: inputs drawn by Init, values pushed to / popped from each queue
    given, scan_pushed, scan_popped, key_pushed, key_popped

rxvars  == <<ps2_rx_state, ps2_rx_data_byte, ps2_rx_bit_count, ps2_rx_parity>>
scanin  == <<ps2_scan_codes, ps2_buffer_in>>
scanq   == <<ps2_scan_codes, ps2_buffer_in, ps2_buffer_out, ps2_scan_code_count>>
keyq    == <<key_codes, key_buffer_in, key_buffer_out, key_code_count>>
usivars == <<USIDR, command_in>>
irqvars == <<sreg_i, pcif, usi_oif>>
lines   == <<ps2_clock, ps2_data>>
fgvars  == <<pc, boot, cmd_phase, scan_code, temp_scan_code, wk_result, qop,
             kbd_lock_keys, kdb_lock_state, tx>>
kbdvars == <<kbd_mode, kbd_frame, kbd_bits, kbd_rx, frames>>
hostvars == <<host_n, host_sent, host_last, host_pure>>
obsvars == <<given, scan_pushed, scan_popped, key_pushed, key_popped>>

vars == <<rxvars, scanq, keyq, usivars, irqvars, lines, fgvars, kbdvars,
          hostvars, obsvars>>

(* ------------------------------------------------------------------ *)
(* Ring-buffer operations                                              *)
(* ------------------------------------------------------------------ *)
\* ps2_recv(): value returned, -1 when the buffer is empty
ps2_recv_result ==
    IF ps2_scan_code_count > 0 THEN ps2_scan_codes[ps2_buffer_out] ELSE -1

\* ps2_recv(): effect on the scan code buffer
ps2_recv ==
    IF ps2_scan_code_count > 0
    THEN /\ ps2_scan_code_count' = ps2_scan_code_count - 1
         /\ ps2_buffer_out' = IF ps2_buffer_out + 1 = PS2_BUFF_SIZE
                              THEN 0 ELSE ps2_buffer_out + 1
         /\ UNCHANGED scanin
    ELSE UNCHANGED scanq

\* faulty variant: the newest entry is returned, not the oldest
read_key_resultNewest ==
    IF key_code_count > 0
    THEN key_codes[(key_buffer_in + KEY_BUFF_SIZE - 1) % KEY_BUFF_SIZE]
    ELSE -1

\* read_key(): value returned, -1 when the buffer is empty
read_key_result ==
    IF key_code_count > 0 THEN key_codes[key_buffer_out] ELSE -1

\* faulty variant: the out-index is not advanced
read_keyNoAdvance ==
    IF key_code_count > 0
    THEN /\ key_code_count' = key_code_count - 1
         /\ UNCHANGED <<key_codes, key_buffer_in, key_buffer_out>>
    ELSE UNCHANGED keyq

\* read_key(): effect on the key code buffer
read_key ==
    IF key_code_count > 0
    THEN /\ key_code_count' = key_code_count - 1
         /\ key_buffer_out' = IF key_buffer_out + 1 = KEY_BUFF_SIZE
                              THEN 0 ELSE key_buffer_out + 1
         /\ UNCHANGED <<key_codes, key_buffer_in>>
    ELSE UNCHANGED keyq

\* write_key(): value returned, -1 when the buffer is full
write_key_result(key_code) ==
    IF key_code_count < KEY_BUFF_SIZE THEN key_code ELSE -1

\* faulty variant: a full buffer takes the byte over its oldest entry
write_keyOverwrite(key_code) ==
    /\ key_codes' = [key_codes EXCEPT ![key_buffer_in] = key_code]
    /\ key_code_count' = IF key_code_count < KEY_BUFF_SIZE
                         THEN key_code_count + 1 ELSE key_code_count
    /\ key_buffer_in' = IF key_buffer_in + 1 = KEY_BUFF_SIZE
                        THEN 0 ELSE key_buffer_in + 1
    /\ UNCHANGED key_buffer_out

\* write_key(): effect on the key code buffer
write_key(key_code) ==
    IF key_code_count < KEY_BUFF_SIZE
    THEN /\ key_codes' = [key_codes EXCEPT ![key_buffer_in] = key_code]
         /\ key_code_count' = key_code_count + 1
         /\ key_buffer_in' = IF key_buffer_in + 1 = KEY_BUFF_SIZE
                             THEN 0 ELSE key_buffer_in + 1
         /\ UNCHANGED key_buffer_out
    ELSE UNCHANGED keyq

(* ------------------------------------------------------------------ *)
(* ISR(PCINT0_vect): one run of the pin-change handler, reading clock  *)
(* level clk and data level dat from PINB                              *)
(* ------------------------------------------------------------------ *)
ErrorStates == {"PS2_RX_ERR_START", "PS2_RX_ERR_OVERRUN",
                "PS2_RX_ERR_PARITY", "PS2_RX_ERR_STOP"}

RxStates == {"PS2_IDLE", "PS2_DATA_BITS", "PS2_PARITY", "PS2_STOP"}
            \cup ErrorStates

\* faulty variant: the bits are taken most significant first
RxAccumulateMsbFirst(byte, bit, count) ==
    (byte + ((bit * (2 ^ (7 - count))) % 256)) % 256

\* ps2_rx_data_byte += (uint8_t)(ps2_data_bit << ps2_rx_bit_count)
RxAccumulate(byte, bit, count) ==
    (byte + ((bit * (2 ^ count)) % 256)) % 256

\* faulty variant: even parity is accepted
RxParityEven(parity, bit) == (parity + bit) % 2 = 0

\* (ps2_rx_parity + ps2_data_bit) & 1
RxParityOk(parity, bit) == (parity + bit) % 2 = 1

\* faulty variant: the byte is stored without the test for room
RxStoreUnchecked ==
    /\ ps2_scan_codes' =
           [ps2_scan_codes EXCEPT ![ps2_buffer_in] = ps2_rx_data_byte]
    /\ ps2_scan_code_count' = ps2_scan_code_count + 1
    /\ ps2_buffer_in' = IF ps2_buffer_in + 1 = PS2_BUFF_SIZE
                        THEN 0 ELSE ps2_buffer_in + 1
    /\ ps2_rx_state' = "PS2_IDLE"

\* the PS2_STOP case with a stop bit of 1: store the byte or flag the overrun
RxStore ==
    IF ps2_scan_code_count < PS2_BUFF_SIZE
    THEN /\ ps2_scan_codes' =
                [ps2_scan_codes EXCEPT ![ps2_buffer_in] = ps2_rx_data_byte]
         /\ ps2_scan_code_count' = ps2_scan_code_count + 1
         /\ ps2_buffer_in' = IF ps2_buffer_in + 1 = PS2_BUFF_SIZE
                             THEN 0 ELSE ps2_buffer_in + 1
         /\ ps2_rx_state' = "PS2_IDLE"
    ELSE /\ ps2_rx_state' = "PS2_RX_ERR_OVERRUN"
         /\ UNCHANGED <<ps2_scan_codes, ps2_scan_code_count, ps2_buffer_in>>

\* case PS2_IDLE: a start bit of 0 resets the accumulators
RxIdle(dat) ==
    /\ IF dat = 0
       THEN /\ ps2_rx_data_byte' = 0
            /\ ps2_rx_bit_count' = 0
            /\ ps2_rx_parity' = 0
            /\ ps2_rx_state' = "PS2_DATA_BITS"
       ELSE /\ ps2_rx_state' = "PS2_RX_ERR_START"
            /\ UNCHANGED <<ps2_rx_data_byte, ps2_rx_bit_count, ps2_rx_parity>>
    /\ UNCHANGED <<scanin, ps2_scan_code_count>>

\* faulty variant: the error labels fall through into case PS2_IDLE
RxErrorFallsThrough(dat) == RxIdle(dat)

\* faulty variant: the next clock edge takes the receiver back to idle
RxErrorRecovers(dat) ==
    /\ ps2_rx_state' = "PS2_IDLE"
    /\ UNCHANGED <<ps2_rx_data_byte, ps2_rx_bit_count, ps2_rx_parity, scanin,
                   ps2_scan_code_count>>

\* case PS2_RX_ERR_START ... PS2_RX_ERR_STOP: break
RxError(dat) == UNCHANGED <<rxvars, scanin, ps2_scan_code_count>>

\* case PS2_DATA_BITS
RxDataBits(dat) ==
    /\ ps2_rx_parity' = ps2_rx_parity + dat
    /\ ps2_rx_data_byte' = RxAccumulate(ps2_rx_data_byte, dat, ps2_rx_bit_count)
    /\ ps2_rx_bit_count' = ps2_rx_bit_count + 1
    /\ ps2_rx_state' = IF ps2_rx_bit_count + 1 = 8
                       THEN "PS2_PARITY" ELSE "PS2_DATA_BITS"
    /\ UNCHANGED <<scanin, ps2_scan_code_count>>

\* case PS2_PARITY
RxParity(dat) ==
    /\ ps2_rx_state' = IF RxParityOk(ps2_rx_parity, dat)
                       THEN "PS2_STOP" ELSE "PS2_RX_ERR_PARITY"
    /\ UNCHANGED <<ps2_rx_data_byte, ps2_rx_bit_count, ps2_rx_parity, scanin,
                   ps2_scan_code_count>>

\* case PS2_STOP
RxStop(dat) ==
    /\ IF dat = 1
       THEN RxStore
       ELSE /\ ps2_rx_state' = "PS2_RX_ERR_STOP"
            /\ UNCHANGED <<scanin, ps2_scan_code_count>>
    /\ UNCHANGED <<ps2_rx_data_byte, ps2_rx_bit_count, ps2_rx_parity>>

PCINT0_vect(clk, dat) ==
    /\ UNCHANGED ps2_buffer_out
    /\ IF clk # 0
       THEN UNCHANGED <<rxvars, scanin, ps2_scan_code_count>>
       ELSE CASE ps2_rx_state \in ErrorStates     -> RxError(dat)
              [] ps2_rx_state = "PS2_IDLE"      -> RxIdle(dat)
              [] ps2_rx_state = "PS2_DATA_BITS" -> RxDataBits(dat)
              [] ps2_rx_state = "PS2_PARITY"    -> RxParity(dat)
              [] ps2_rx_state = "PS2_STOP"      -> RxStop(dat)

(* ------------------------------------------------------------------ *)
(* ISR(USI_OVF_vect): one run of the exchange-complete handler         *)
(* ------------------------------------------------------------------ *)
\* faulty variant: with the buffer empty USIDR keeps the byte the host shifted in
USI_OVF_vectNoZero(usidr) ==
    /\ command_in' = usidr
    /\ USIDR' = IF read_key_result = -1 THEN usidr ELSE read_key_result
    /\ read_key

USI_OVF_vect(usidr) ==
    /\ command_in' = usidr
    /\ USIDR' = IF read_key_result = -1 THEN 0 ELSE read_key_result
    /\ read_key

(* ------------------------------------------------------------------ *)
(* Interrupt dispatch.  A handler runs at once when the I flag is set; *)
(* otherwise its flag stays pending until sei().  The observation      *)
(* variables record what crosses each queue's interface.               *)
(* ------------------------------------------------------------------ *)
\* the handler run on (clk, dat) stores a byte
ScanPushTaken(clk, dat) ==
    /\ clk = 0
    /\ ps2_rx_state = "PS2_STOP"
    /\ dat = 1
    /\ ps2_scan_code_count < PS2_BUFF_SIZE

RunPCINT0(clk, dat) ==
    /\ PCINT0_vect(clk, dat)
    /\ scan_pushed' = IF ScanPushTaken(clk, dat)
                      THEN Append(scan_pushed, ps2_rx_data_byte)
                      ELSE scan_pushed

RunUSI(usidr) ==
    /\ USI_OVF_vect(usidr)
    /\ key_popped' = IF read_key_result # -1
                     THEN Append(key_popped, read_key_result)
                     ELSE key_popped

\* faulty variant: the handler runs with the I flag clear
PinChangeUnmasked(clk, dat) == RunPCINT0(clk, dat) /\ UNCHANGED pcif

\* a change of the clock pin to level clk, the data pin reading dat
PinChange(clk, dat) ==
    IF sreg_i
    THEN RunPCINT0(clk, dat) /\ UNCHANGED pcif
    ELSE pcif' = TRUE /\ UNCHANGED <<rxvars, scanq, scan_pushed>>

\* sei(): the I flag is set and the pending handlers run
Sei ==
    /\ sreg_i' = TRUE
    /\ pcif' = FALSE
    /\ usi_oif' = FALSE
    /\ IF pcif THEN RunPCINT0(ps2_clock, ps2_data)
               ELSE UNCHANGED <<rxvars, scanq, scan_pushed>>
    /\ IF usi_oif THEN RunUSI(USIDR)
                  ELSE UNCHANGED <<usivars, keyq, key_popped>>

(* ------------------------------------------------------------------ *)
(* Keyboard commands issued by main before the loop: kbd_test_led(),   *)
(* kbd_typematic_set(PS2_HK_TYPEMAT), kbd_code_set(1)                  *)
(* ------------------------------------------------------------------ *)
Led(state) == [fn |-> "kdb_led_ctrl", arg |-> state]

StartupCmds ==
    << Led(PS2_HK_SCRLOCK), Led(0), Led(PS2_HK_CAPSLOCK), Led(0),
       Led(PS2_HK_NUMLOCK), Led(0), Led(PS2_HK_CAPSLOCK), Led(0),
       Led(PS2_HK_SCRLOCK), Led(0),
       [fn |-> "kbd_typematic_set", arg |-> PS2_HK_TYPEMAT],
       [fn |-> "kbd_code_set", arg |-> 1] >>

NumStartup == Len(StartupCmds)

\* the command being executed: a start-up command, or the LED update of the loop
CurrentCmd ==
    IF boot <= NumStartup THEN StartupCmds[boot] ELSE Led(kbd_lock_keys)

CmdOpcode(c) ==
    CASE c.fn = "kdb_led_ctrl"      -> PS2_HK_LEDS
      [] c.fn = "kbd_typematic_set" -> PS2_HK_TMDELAY
      [] c.fn = "kbd_code_set"      -> PS2_HK_ALTCODE

\* state &= 0x07; configuration &= 0x7f; (uint8_t)set
CmdParam(c) ==
    CASE c.fn = "kdb_led_ctrl"      -> c.arg % 8
      [] c.fn = "kbd_typematic_set" -> c.arg % 128
      [] c.fn = "kbd_code_set"      -> c.arg % 256

\* kbd_code_set() returns PS2_KH_RESEND without sending for a set outside 1..3
CmdRejected(c) == c.fn = "kbd_code_set" /\ (c.arg < 1 \/ c.arg > 3)

(* ------------------------------------------------------------------ *)
(* ps2_send()                                                          *)
(* ------------------------------------------------------------------ *)
\* ps2_tx_parity after the head of the bit loop, for bit number count
TxParity(byte, parity, count) ==
    IF count < 8 THEN parity + (byte % 2) ELSE parity

\* faulty variant: the parity bit makes the number of ones even
TxDataBitEvenParity(byte, parity, count) ==
    IF count < 8 THEN byte % 2
    ELSE IF count = 8 THEN 1 - (parity % 2)
    ELSE 1

\* ps2_data_bit chosen at the head of the bit loop; parity is already updated
TxDataBit(byte, parity, count) ==
    IF count < 8 THEN byte % 2
    ELSE IF count = 8 THEN parity % 2
    ELSE 1

\* result = -1 * (int)(PINB & PS2_DATA)
TxResult(dat) == -1 * (dat * PS2_DATA)

\* entry up to the first wait for a low clock: cli(), receiver reset, request
\* to send (clock held low, data low, clock released)
ps2_sendEntry(byte) ==
    /\ LET par  == TxParity(byte, 1, 0)
       IN  tx' = [byte |-> byte, ps2_tx_parity |-> par, ps2_tx_bit_count |-> 0,
                  ps2_data_bit |-> TxDataBit(byte, par, 0),
                  result |-> tx.result]
    /\ sreg_i' = FALSE
    /\ pcif' = TRUE
    /\ ps2_rx_state' = "PS2_IDLE"
    /\ ps2_rx_data_byte' = 0
    /\ ps2_rx_bit_count' = 0
    /\ ps2_rx_parity' = 0
    /\ ps2_clock' = 1
    /\ ps2_data' = 0
    /\ kbd_mode' = "rx"
    /\ kbd_bits' = <<>>
    /\ kbd_rx' = <<>>
    /\ pc' = "send_low"
    /\ UNCHANGED <<scanq, keyq, usivars, usi_oif, boot, cmd_phase, scan_code,
                   temp_scan_code, wk_result, qop, kbd_lock_keys, kdb_lock_state,
                   kbd_frame, frames, hostvars, obsvars>>

\* ps2_send(opcode) of a command, or ps2_send(parameter) after the acknowledge
SendEntry ==
    ps2_sendEntry(IF cmd_phase = 1 THEN CmdOpcode(CurrentCmd)
                                   ELSE CmdParam(CurrentCmd))

\* kbd_code_set() with a set outside 1..3
SendRejected ==
    /\ temp_scan_code' = PS2_KH_RESEND
    /\ pc' = "cmd_ret"
    /\ UNCHANGED <<rxvars, scanq, keyq, usivars, irqvars, lines, boot,
                   cmd_phase, scan_code, wk_result, qop, kbd_lock_keys,
                   kdb_lock_state, tx, kbdvars, hostvars, obsvars>>

\* the first ps2_send() of a command, or its early return
CmdSend ==
    /\ pc = "cmd_send"
    /\ IF cmd_phase = 1 /\ CmdRejected(CurrentCmd)
       THEN SendRejected
       ELSE SendEntry

\* do {} while ( (PINB & PS2_CLOCK) ); then drive the data bit
SendLow ==
    /\ pc = "send_low"
    /\ ps2_clock = 0
    /\ ps2_data' = tx.ps2_data_bit
    /\ pc' = "send_high"
    /\ UNCHANGED <<rxvars, scanq, keyq, usivars, irqvars, ps2_clock, boot,
                   cmd_phase, scan_code, temp_scan_code, wk_result, qop,
                   kbd_lock_keys, kdb_lock_state, tx, kbdvars, hostvars,
                   obsvars>>

\* do {} while ( !(PINB & PS2_CLOCK) ); count, shift, and either the head of
\* the next round or the release of the data line
SendHigh ==
    /\ pc = "send_high"
    /\ ps2_clock = 1
    /\ LET n    == tx.ps2_tx_bit_count + 1
           byte == tx.byte \div 2
           par  == TxParity(byte, tx.ps2_tx_parity, n)
       IN  IF n < 10
           THEN /\ tx' = [tx EXCEPT !.byte = byte, !.ps2_tx_bit_count = n,
                                    !.ps2_tx_parity = par,
                                    !.ps2_data_bit = TxDataBit(byte, par, n)]
                /\ pc' = "send_low"
                /\ UNCHANGED ps2_data
           ELSE /\ tx' = [tx EXCEPT !.byte = byte, !.ps2_tx_bit_count = n]
                /\ ps2_data' = 1
                /\ pc' = "send_ack_low"
    /\ UNCHANGED <<rxvars, scanq, keyq, usivars, irqvars, ps2_clock, boot,
                   cmd_phase, scan_code, temp_scan_code, wk_result, qop,
                   kbd_lock_keys, kdb_lock_state, kbdvars, hostvars, obsvars>>

\* wait for the acknowledge clock and sample the data line
SendAckLow ==
    /\ pc = "send_ack_low"
    /\ ps2_clock = 0
    /\ tx' = [tx EXCEPT !.result = TxResult(ps2_data)]
    /\ pc' = "send_ack_high"
    /\ UNCHANGED <<rxvars, scanq, keyq, usivars, irqvars, lines, boot,
                   cmd_phase, scan_code, temp_scan_code, wk_result, qop,
                   kbd_lock_keys, kdb_lock_state, kbdvars, hostvars, obsvars>>

\* faulty variant: sei() without the wait for a high clock
SendAckHighNoWait ==
    /\ pc = "send_ack_high"
    /\ Sei
    /\ pc' = "send_delay"
    /\ UNCHANGED <<lines, boot, cmd_phase, scan_code, temp_scan_code,
                   wk_result, qop, kbd_lock_keys, kdb_lock_state, tx, kbdvars,
                   hostvars, given, scan_popped, key_pushed>>

\* wait for the clock to go high, then sei()
SendAckHigh ==
    /\ pc = "send_ack_high"
    /\ ps2_clock = 1
    /\ Sei
    /\ pc' = "send_delay"
    /\ UNCHANGED <<lines, boot, cmd_phase, scan_code, temp_scan_code,
                   wk_result, qop, kbd_lock_keys, kdb_lock_state, tx, kbdvars,
                   hostvars, given, scan_popped, key_pushed>>

\* _delay_ms(20); return result;  (every caller discards the result)
SendReturn ==
    /\ pc = "send_delay"
    /\ pc' = "cmd_recv"
    /\ UNCHANGED <<rxvars, scanq, keyq, usivars, irqvars, lines, boot,
                   cmd_phase, scan_code, temp_scan_code, wk_result, qop,
                   kbd_lock_keys, kdb_lock_state, tx, kbdvars, hostvars,
                   obsvars>>

(* ------------------------------------------------------------------ *)
(* kdb_led_ctrl(), kbd_code_set(), kbd_typematic_set() after a send    *)
(* ------------------------------------------------------------------ *)
\* one round of the loop of ps2_recv_x()
Poll ==
    /\ ps2_recv
    /\ scan_popped' = IF ps2_recv_result # -1
                      THEN Append(scan_popped, ps2_recv_result)
                      ELSE scan_popped

\* faulty variant: the opcode is sent again when the keyboard asks for it
CmdRecvResends ==
    /\ pc = "cmd_recv"
    /\ Poll
    /\ IF ps2_recv_result = -1
       THEN UNCHANGED <<pc, cmd_phase, temp_scan_code>>
       ELSE /\ temp_scan_code' = ps2_recv_result
            /\ IF cmd_phase = 1 /\ ps2_recv_result = PS2_KH_ACK
               THEN cmd_phase' = 2 /\ pc' = "cmd_send"
               ELSE IF ps2_recv_result = PS2_KH_RESEND
               THEN pc' = "cmd_send" /\ UNCHANGED cmd_phase
               ELSE pc' = "cmd_ret" /\ UNCHANGED cmd_phase
    /\ UNCHANGED <<rxvars, keyq, usivars, irqvars, lines, boot, scan_code,
                   wk_result, qop, kbd_lock_keys, kdb_lock_state, tx, kbdvars,
                   hostvars, given, scan_pushed, key_pushed, key_popped>>

\* temp_scan_code = ps2_recv_x(); the second send follows an acknowledge
CmdRecv ==
    /\ pc = "cmd_recv"
    /\ Poll
    /\ IF ps2_recv_result = -1
       THEN UNCHANGED <<pc, cmd_phase, temp_scan_code>>
       ELSE /\ temp_scan_code' = ps2_recv_result
            /\ IF cmd_phase = 1 /\ ps2_recv_result = PS2_KH_ACK
               THEN cmd_phase' = 2 /\ pc' = "cmd_send"
               ELSE pc' = "cmd_ret" /\ UNCHANGED cmd_phase
    /\ UNCHANGED <<rxvars, keyq, usivars, irqvars, lines, boot, scan_code,
                   wk_result, qop, kbd_lock_keys, kdb_lock_state, tx, kbdvars,
                   hostvars, given, scan_pushed, key_pushed, key_popped>>

\* return to main: the next start-up command, sei() and the loop after the
\* last one, or the rest of the LED update of the loop
CmdReturn ==
    /\ pc = "cmd_ret"
    /\ IF boot < NumStartup
       THEN /\ boot' = boot + 1
            /\ cmd_phase' = 1
            /\ pc' = "cmd_send"
            /\ UNCHANGED <<kdb_lock_state, rxvars, scanq, keyq, usivars,
                           irqvars, scan_pushed, key_popped>>
       ELSE IF boot = NumStartup
       THEN /\ boot' = boot + 1
            /\ Sei
            /\ pc' = "loop"
            /\ UNCHANGED <<kdb_lock_state, cmd_phase>>
       ELSE /\ kdb_lock_state' = kbd_lock_keys
            /\ pc' = "loop"
            /\ UNCHANGED <<boot, cmd_phase, rxvars, scanq, keyq, usivars,
                           irqvars, scan_pushed, key_popped>>
    /\ UNCHANGED <<lines, scan_code, temp_scan_code, wk_result, qop, kbd_lock_keys,
                   tx, kbdvars, hostvars, given, scan_popped, key_pushed>>

(* ------------------------------------------------------------------ *)
(* main(): the scan code translation of the loop                       *)
(* ------------------------------------------------------------------ *)
\* faulty variant: the break codes are missing from the list
AllowListMakeOnly == {80, 77, 75, 72}

\* extended codes that are kept
AllowList == {80, 208, 77, 205, 75, 203, 72, 200}

\* faulty variant: case 15 is missing
DiscardTableNoTab ==
    {27, 29, 41, 40, 43, 55, 56, 58} \cup (69..71) \cup (73..74) \cup {76}
    \cup (78..79) \cup (81..83) \cup {85, 133, 134} \cup (91..93)

\* case labels of the switch that end in continue
DiscardTable ==
    {15, 27, 29, 41, 40, 43, 55, 56, 58} \cup (69..71) \cup (73..74) \cup {76}
    \cup (78..79) \cup (81..83) \cup {85, 133, 134} \cup (91..93)

\* faulty variant: bit 7 is not carried over
RemapDropsBit7(code) == IF Low7(code) = 54 THEN 42 ELSE code

\* case 54: scan_code = (scan_code & 0x80) + 42
Remap(code) == IF Low7(code) = 54 THEN Bit7(code) + 42 ELSE code

\* faulty variant: the test for 0 is missing
OutOfRangeKeepsZero(code) == Low7(code % 256) > PS2_LAST_CODE

\* ((uint8_t)scan_code & 0x7f) > PS2_LAST_CODE || scan_code == 0
OutOfRange(code) == Low7(code % 256) > PS2_LAST_CODE \/ code = 0

\* the switch and the range check applied to code: where main goes next
\* ("write" is the call of write_key, "loop" a continue) and scan_code then
Filter(code) ==
    IF Low7(code) \in DiscardTable
    THEN [pc |-> "loop", scan_code |-> code]
    ELSE [pc |-> IF OutOfRange(Remap(code)) THEN "loop" ELSE "write",
          scan_code |-> Remap(code)]

\* faulty variant: only the make sequence of Pause is recognised
PauseSecondMakeOnly == {29}

\* faulty variant: whatever follows 0xe1 starts a discarded sequence
PauseSecondAny == Byte

\* second bytes after 0xe1 whose sequence is discarded: 0x1d and 0x9d
PauseSecond == {29, 157}

\* places of main where the scan code buffer is read: the ps2_recv() of the
\* loop head and the three ps2_recv_x()
RecvSites == {"loop", "e1_next", "e1_discard", "e0_next"}

\* where main goes, and what scan_code holds, once the read at site has
\* returned r: a ps2_recv_x() that got -1 asks again; the loop head goes to
\* the LED update or round again
AfterRecv(site, r) ==
    CASE site = "loop" ->
            IF r = -1
            THEN [pc |-> IF kdb_lock_state # kbd_lock_keys
                         THEN "cmd_send" ELSE "loop",
                  scan_code |-> -1]
            ELSE IF r = 225 THEN [pc |-> "e1_next", scan_code |-> r]
            ELSE IF r = 224 THEN [pc |-> "e0_next", scan_code |-> r]
            ELSE Filter(r)
      [] site = "e1_next" ->
            IF r = -1 THEN [pc |-> site, scan_code |-> scan_code]
            ELSE IF r \in PauseSecond
            THEN [pc |-> "e1_discard", scan_code |-> r]
            ELSE IF r = 224 THEN [pc |-> "e0_next", scan_code |-> r]
            ELSE Filter(r)
      [] site = "e1_discard" ->
            [pc |-> IF r = -1 THEN site ELSE "loop", scan_code |-> scan_code]
      [] site = "e0_next" ->
            IF r = -1 THEN [pc |-> site, scan_code |-> scan_code]
            ELSE IF r \in AllowList THEN Filter(r)
            ELSE [pc |-> "loop", scan_code |-> r]

\* main moves on from the read at pc, which returned r
Resume(r) ==
    /\ pc' = AfterRecv(pc, r).pc
    /\ scan_code' = AfterRecv(pc, r).scan_code
    /\ cmd_phase' = IF AfterRecv(pc, r).pc = "cmd_send" THEN 1 ELSE cmd_phase

\* one read of the scan code buffer at site and what main does with the byte
RecvAt(site) ==
    /\ pc = site
    /\ Poll
    /\ Resume(ps2_recv_result)
    /\ UNCHANGED <<rxvars, keyq, usivars, irqvars, lines, boot,
                   temp_scan_code, wk_result, qop, kbd_lock_keys,
                   kdb_lock_state, tx, kbdvars, hostvars, given, scan_pushed,
                   key_pushed, key_popped>>

\* scan_code = ps2_recv(); then the lead-byte tests and the filter, or the LED
\* update when the buffer is empty
MainRecv == RecvAt("loop")

\* after 0xe1: scan_code = ps2_recv_x(); a 0x1d or 0x9d leads to the discard
\* of one more byte, anything else goes on to the 0xe0 test and the filter
MainE1Next == RecvAt("e1_next")

\* after 0xe1 0x1d or 0xe1 0x9d: ps2_recv_x(); continue;
MainE1Discard == RecvAt("e1_discard")

\* after 0xe0: scan_code = ps2_recv_x(); the allow-listed codes go on to the
\* filter, the others are dropped
MainE0Next == RecvAt("e0_next")

\* write_key(scan_code); the result is discarded
MainWrite ==
    /\ pc = "write"
    /\ write_key(scan_code % 256)
    /\ wk_result' = write_key_result(scan_code % 256)
    /\ key_pushed' = IF key_code_count < KEY_BUFF_SIZE
                     THEN Append(key_pushed, scan_code % 256)
                     ELSE key_pushed
    /\ pc' = "loop"
    /\ UNCHANGED <<rxvars, scanq, usivars, irqvars, lines, boot, cmd_phase,
                   scan_code, temp_scan_code, qop, kbd_lock_keys, kdb_lock_state,
                   tx, kbdvars, hostvars, given, scan_pushed, scan_popped,
                   key_popped>>

(* ------------------------------------------------------------------ *)
(* ps2_recv() and write_key() statement by statement, as the loop runs *)
(* them with interrupts enabled: a handler can run between any two of  *)
(* these steps.  count-- and count++ on the volatile counters are a    *)
(* load and a store; an index is incremented and then compared with    *)
(* the buffer size.                                                    *)
(* ------------------------------------------------------------------ *)
\* what no statement of the two functions touches
fgrest == <<boot, temp_scan_code, kbd_lock_keys, kdb_lock_state, tx>>
outside == <<rxvars, usivars, irqvars, lines, kbdvars, hostvars, given>>

\* if ( ps2_scan_code_count > 0 ); when it fails -1 is returned
RecvTest ==
    /\ pc \in RecvSites
    /\ qop.at = "none"
    /\ IF ps2_scan_code_count > 0
       THEN /\ qop' = [qop EXCEPT !.at = "recv_elem"]
            /\ UNCHANGED <<pc, scan_code, cmd_phase>>
       ELSE /\ Resume(-1)
            /\ UNCHANGED qop
    /\ UNCHANGED <<scanq, keyq, wk_result, fgrest, outside, scan_pushed,
                   scan_popped, key_pushed, key_popped>>

\* result = (int)ps2_scan_codes[ps2_buffer_out];
RecvElem ==
    /\ qop.at = "recv_elem"
    /\ qop' = [qop EXCEPT !.at = "recv_load",
                          !.result = ps2_scan_codes[ps2_buffer_out]]
    /\ scan_popped' = Append(scan_popped, ps2_scan_codes[ps2_buffer_out])
    /\ UNCHANGED <<scanq, keyq, pc, scan_code, cmd_phase, wk_result, fgrest,
                   outside, scan_pushed, key_pushed, key_popped>>

\* ps2_scan_code_count--; the load
RecvLoad ==
    /\ qop.at = "recv_load"
    /\ qop' = [qop EXCEPT !.at = "recv_store", !.count = ps2_scan_code_count]
    /\ UNCHANGED <<scanq, keyq, pc, scan_code, cmd_phase, wk_result, fgrest,
                   outside, scan_pushed, scan_popped, key_pushed, key_popped>>

\* ps2_scan_code_count--; the store
RecvStore ==
    /\ qop.at = "recv_store"
    /\ ps2_scan_code_count' = qop.count - 1
    /\ qop' = [qop EXCEPT !.at = "recv_inc"]
    /\ UNCHANGED <<ps2_scan_codes, ps2_buffer_in, ps2_buffer_out, keyq, pc,
                   scan_code, cmd_phase, wk_result, fgrest, outside,
                   scan_pushed, scan_popped, key_pushed, key_popped>>

\* ps2_buffer_out++;
RecvInc ==
    /\ qop.at = "recv_inc"
    /\ ps2_buffer_out' = ps2_buffer_out + 1
    /\ qop' = [qop EXCEPT !.at = "recv_wrap"]
    /\ UNCHANGED <<ps2_scan_codes, ps2_buffer_in, ps2_scan_code_count, keyq,
                   pc, scan_code, cmd_phase, wk_result, fgrest, outside,
                   scan_pushed, scan_popped, key_pushed, key_popped>>

\* if ( ps2_buffer_out == PS2_BUFF_SIZE ) ps2_buffer_out = 0; return result;
RecvWrap ==
    /\ qop.at = "recv_wrap"
    /\ ps2_buffer_out' = IF ps2_buffer_out = PS2_BUFF_SIZE
                         THEN 0 ELSE ps2_buffer_out
    /\ Resume(qop.result)
    /\ qop' = [qop EXCEPT !.at = "none"]
    /\ UNCHANGED <<ps2_scan_codes, ps2_buffer_in, ps2_scan_code_count, keyq,
                   wk_result, fgrest, outside, scan_pushed, scan_popped,
                   key_pushed, key_popped>>

\* faulty variant: the test lets a full buffer through
WriteHasRoomOffByOne == key_code_count <= KEY_BUFF_SIZE

\* key_code_count < KEY_BUFF_SIZE
WriteHasRoom == key_code_count < KEY_BUFF_SIZE

\* if ( key_code_count < KEY_BUFF_SIZE ); when it fails -1 is returned and
\* main, which drops the result, is back at the head of the loop
WriteTest ==
    /\ pc = "write"
    /\ qop.at = "none"
    /\ IF WriteHasRoom
       THEN /\ qop' = [qop EXCEPT !.at = "wk_elem"]
            /\ UNCHANGED <<pc, wk_result>>
       ELSE /\ wk_result' = -1
            /\ pc' = "loop"
            /\ UNCHANGED qop
    /\ UNCHANGED <<scanq, keyq, scan_code, cmd_phase, fgrest, outside,
                   scan_pushed, scan_popped, key_pushed, key_popped>>

\* key_codes[key_buffer_in] = key_code; result = (int) key_code;
WriteElem ==
    /\ qop.at = "wk_elem"
    /\ key_codes' = [key_codes EXCEPT ![key_buffer_in] = scan_code % 256]
    /\ key_pushed' = Append(key_pushed, scan_code % 256)
    /\ qop' = [qop EXCEPT !.at = "wk_load", !.result = scan_code % 256]
    /\ UNCHANGED <<scanq, key_buffer_in, key_buffer_out, key_code_count, pc,
                   scan_code, cmd_phase, wk_result, fgrest, outside,
                   scan_pushed, scan_popped, key_popped>>

\* key_code_count++; the load
WriteLoad ==
    /\ qop.at = "wk_load"
    /\ qop' = [qop EXCEPT !.at = "wk_store", !.count = key_code_count]
    /\ UNCHANGED <<scanq, keyq, pc, scan_code, cmd_phase, wk_result, fgrest,
                   outside, scan_pushed, scan_popped, key_pushed, key_popped>>

\* key_code_count++; the store
WriteStore ==
    /\ qop.at = "wk_store"
    /\ key_code_count' = qop.count + 1
    /\ qop' = [qop EXCEPT !.at = "wk_inc"]
    /\ UNCHANGED <<scanq, key_codes, key_buffer_in, key_buffer_out, pc,
                   scan_code, cmd_phase, wk_result, fgrest, outside,
                   scan_pushed, scan_popped, key_pushed, key_popped>>

\* key_buffer_in++;
WriteInc ==
    /\ qop.at = "wk_inc"
    /\ key_buffer_in' = key_buffer_in + 1
    /\ qop' = [qop EXCEPT !.at = "wk_wrap"]
    /\ UNCHANGED <<scanq, key_codes, key_buffer_out, key_code_count, pc,
                   scan_code, cmd_phase, wk_result, fgrest, outside,
                   scan_pushed, scan_popped, key_pushed, key_popped>>

\* if ( key_buffer_in == KEY_BUFF_SIZE ) key_buffer_in = 0; return result;
WriteWrap ==
    /\ qop.at = "wk_wrap"
    /\ key_buffer_in' = IF key_buffer_in = KEY_BUFF_SIZE
                        THEN 0 ELSE key_buffer_in
    /\ wk_result' = qop.result
    /\ pc' = "loop"
    /\ qop' = [qop EXCEPT !.at = "none"]
    /\ UNCHANGED <<scanq, key_codes, key_buffer_out, key_code_count,
                   scan_code, cmd_phase, fgrest, outside, scan_pushed,
                   scan_popped, key_pushed, key_popped>>

(* ------------------------------------------------------------------ *)
(* The keyboard.  Sending, it sets the data line and pulls the clock   *)
(* low, then releases the clock, once per bit.  After a request to     *)
(* send it clocks the host's frame, one pulse per wait of ps2_send(),  *)
(* and on the last pulse holds the data line low to acknowledge, or    *)
(* does not.                                                           *)
(* ------------------------------------------------------------------ *)
KbdStart(b, fault) ==
    /\ kbd_mode = "idle"
    /\ ps2_clock = 1
    /\ frames > 0
    /\ frames' = frames - 1
    /\ kbd_mode' = "tx"
    /\ kbd_frame' = <<b, fault>>
    /\ kbd_bits' = Tail(Frame(b, fault))
    /\ ps2_clock' = 0
    /\ ps2_data' = Head(Frame(b, fault))
    /\ PinChange(0, Head(Frame(b, fault)))
    /\ UNCHANGED <<keyq, usivars, sreg_i, usi_oif, fgvars, kbd_rx, hostvars,
                   given, scan_popped, key_pushed, key_popped>>

KbdFall ==
    /\ kbd_mode = "tx"
    /\ ps2_clock = 1
    /\ kbd_bits # <<>>
    /\ kbd_bits' = Tail(kbd_bits)
    /\ ps2_clock' = 0
    /\ ps2_data' = Head(kbd_bits)
    /\ PinChange(0, Head(kbd_bits))
    /\ UNCHANGED <<keyq, usivars, sreg_i, usi_oif, fgvars, kbd_mode, kbd_frame,
                   kbd_rx, frames, hostvars, given, scan_popped, key_pushed,
                   key_popped>>

KbdRise ==
    /\ kbd_mode = "tx"
    /\ ps2_clock = 0
    /\ ps2_clock' = 1
    /\ IF kbd_bits = <<>>
       THEN kbd_mode' = "idle" /\ ps2_data' = 1
       ELSE UNCHANGED <<kbd_mode, ps2_data>>
    /\ PinChange(1, ps2_data')
    /\ UNCHANGED <<keyq, usivars, sreg_i, usi_oif, fgvars, kbd_frame, kbd_bits,
                   kbd_rx, frames, hostvars, given, scan_popped, key_pushed,
                   key_popped>>

KbdClockFall ==
    /\ kbd_mode = "rx"
    /\ ps2_clock = 1
    /\ pc \in {"send_low", "send_ack_low"}
    /\ ps2_clock' = 0
    /\ IF pc = "send_ack_low"
       THEN ps2_data' \in {0, 1}
       ELSE UNCHANGED ps2_data
    /\ PinChange(0, ps2_data')
    /\ UNCHANGED <<keyq, usivars, sreg_i, usi_oif, fgvars, kbdvars, hostvars,
                   given, scan_popped, key_pushed, key_popped>>

KbdClockRise ==
    /\ kbd_mode = "rx"
    /\ ps2_clock = 0
    /\ pc \in {"send_high", "send_ack_high"}
    /\ ps2_clock' = 1
    /\ IF pc = "send_ack_high"
       THEN /\ ps2_data' = 1
            /\ kbd_mode' = "idle"
            /\ UNCHANGED kbd_rx
       ELSE /\ kbd_rx' = Append(kbd_rx, ps2_data)
            /\ UNCHANGED <<ps2_data, kbd_mode>>
    /\ PinChange(1, ps2_data')
    /\ UNCHANGED <<keyq, usivars, sreg_i, usi_oif, fgvars, kbd_frame, kbd_bits,
                   frames, hostvars, given, scan_popped, key_pushed,
                   key_popped>>

(* ------------------------------------------------------------------ *)
(* The host: one full-duplex exchange.  The host receives the byte in  *)
(* USIDR and shifts cmd into it; the overflow handler then runs, or    *)
(* stays pending while the I flag is clear.                            *)
(* ------------------------------------------------------------------ *)
HostTransfer(cmd) ==
    /\ host_sent' = cmd
    /\ host_last' = USIDR
    /\ host_pure' = (host_pure /\ pc = "loop" /\ ps2_scan_code_count = 0)
    /\ IF sreg_i
       THEN RunUSI(cmd) /\ UNCHANGED usi_oif
       ELSE /\ USIDR' = cmd
            /\ usi_oif' = TRUE
            /\ UNCHANGED <<command_in, keyq, key_popped>>
    /\ UNCHANGED <<rxvars, scanq, sreg_i, pcif, lines, fgvars, kbdvars,
                   given, scan_pushed, scan_popped, key_pushed>>

\* one of the exchanges that are counted
HostExchange(cmd) ==
    /\ host_n < given.exchanges
    /\ host_n' = host_n + 1
    /\ HostTransfer(cmd)

\* an exchange after the counted ones: the host goes on for ever
HostKeeps(cmd) ==
    /\ host_n = given.exchanges
    /\ UNCHANGED host_n
    /\ HostTransfer(cmd)

(* ------------------------------------------------------------------ *)
(* States the program starts from                                      *)
(* ------------------------------------------------------------------ *)
\* locals of ps2_send() as a completed, acknowledged send of byte leaves them
TxAfter(byte) ==
    [byte |-> 0, ps2_tx_parity |-> 1 + Ones(byte), ps2_tx_bit_count |-> 10,
     ps2_data_bit |-> 1, result |-> 0]

\* valid key codes, all different: what the translator passes unchanged
KeyFill(j) ==
    IF j < 13 THEN 2 + j
    ELSE IF j < 24 THEN 3 + j
    ELSE 6 + j

KeyFillSeq(n) == [j \in 1..n |-> KeyFill(j - 1)]

\* a ring of size slots whose live entries, from index start, are seq; the
\* other slots hold what byte rest[j] an earlier lap left there
RingOf(start, seq, rest) ==
    [i \in Ring |->
        LET j == (i - start + PS2_BUFF_SIZE) % PS2_BUFF_SIZE
        IN  IF j < Len(seq) THEN seq[j + 1] ELSE rest[j]]

AckByte == [j \in Ring |-> PS2_KH_ACK]

KeyRest == [j \in Ring |-> KeyFill(j)]

\* the receiver after the valid frame of byte: idle, the accumulators left
\* as the frame set them
RxAfter(byte) ==
    /\ ps2_rx_state = "PS2_IDLE"
    /\ ps2_rx_data_byte = byte
    /\ ps2_rx_bit_count = 8
    /\ ps2_rx_parity = Ones(byte)

\* what no choice of a start state touches
Quiet ==
    /\ USIDR = 0
    /\ command_in = 0
    /\ kbd_lock_keys = 0
    /\ kdb_lock_state = 0
    /\ pcif = FALSE
    /\ usi_oif = FALSE
    /\ ps2_clock = 1
    /\ ps2_data = 1
    /\ wk_result = 0
    /\ qop = [at |-> "none", result |-> -1, count |-> 0]
    /\ kbd_mode = "idle"
    /\ kbd_frame = <<>>
    /\ kbd_bits = <<>>
    /\ kbd_rx = <<>>
    /\ host_n = 0
    /\ host_sent = 0
    /\ host_last = 0
    /\ host_pure = TRUE
    /\ scan_popped = <<>>
    /\ key_popped = <<>>

\* main about to issue start-up command k, each earlier command having been
\* acknowledged twice; k = 1 is the state after reset and ioinit()
BootState(k, nframes, nexchanges) ==
    /\ Quiet
    /\ IF k = 1
       THEN /\ ps2_rx_state = "PS2_IDLE"
            /\ ps2_rx_data_byte = 0
            /\ ps2_rx_bit_count = 0
            /\ ps2_rx_parity = 0
       ELSE RxAfter(PS2_KH_ACK)
    /\ pc = "cmd_send"
    /\ boot = k
    /\ cmd_phase = 1
    /\ scan_code = 0
    /\ temp_scan_code = IF k = 1 THEN 0 ELSE PS2_KH_ACK
    /\ tx = IF k = 1
            THEN [byte |-> 0, ps2_tx_parity |-> 0, ps2_tx_bit_count |-> 0,
                  ps2_data_bit |-> 0, result |-> 0]
            ELSE TxAfter(CmdParam(StartupCmds[k - 1]))
    /\ sreg_i = (k > 1)
    /\ ps2_scan_codes = [i \in Ring |-> IF i < 2 * (k - 1) THEN PS2_KH_ACK ELSE 0]
    /\ ps2_buffer_in = 2 * (k - 1)
    /\ ps2_buffer_out = 2 * (k - 1)
    /\ ps2_scan_code_count = 0
    /\ key_codes = [i \in Ring |-> 0]
    /\ key_buffer_in = 0
    /\ key_buffer_out = 0
    /\ key_code_count = 0
    /\ frames = nframes
    /\ scan_pushed = <<>>
    /\ key_pushed = <<>>
    /\ given = [at |-> "boot", si |-> 2 * (k - 1), raw |-> <<>>, ki |-> 0,
                kf |-> 0, exchanges |-> nexchanges]

\* main at the top of the loop, interrupts enabled: the scan code buffer holds
\* raw from index si, the key code buffer holds kf key codes from index ki
LoopState(si, raw, ki, kf, nframes, nexchanges) ==
    /\ Quiet
    /\ RxAfter(IF raw = <<>> THEN PS2_KH_ACK ELSE raw[Len(raw)])
    /\ pc = "loop"
    /\ boot = NumStartup + 1
    /\ cmd_phase = 2
    /\ scan_code = -1
    /\ temp_scan_code = PS2_KH_ACK
    /\ tx = TxAfter(CmdParam(StartupCmds[NumStartup]))
    /\ sreg_i = TRUE
    /\ ps2_scan_codes = RingOf(si, raw, AckByte)
    /\ ps2_buffer_out = si
    /\ ps2_buffer_in = (si + Len(raw)) % PS2_BUFF_SIZE
    /\ ps2_scan_code_count = Len(raw)
    /\ key_codes = RingOf(ki, KeyFillSeq(kf), KeyRest)
    /\ key_buffer_out = ki
    /\ key_buffer_in = (ki + kf) % KEY_BUFF_SIZE
    /\ key_code_count = kf
    /\ frames = nframes
    /\ scan_pushed = raw
    /\ key_pushed = KeyFillSeq(kf)
    /\ given = [at |-> "loop", si |-> si, raw |-> raw, ki |-> ki, kf |-> kf,
                exchanges |-> nexchanges]

(* ------------------------------------------------------------------ *)
(* Spec: the whole program.  It starts at reset, or before the last    *)
(* start-up command, or in the loop: just entered, with the scan code  *)
(* buffer one short of full, or with the key code buffer one short of  *)
(* full and an extended and a Pause sequence waiting.  The loop states *)
(* start both rings two short of the wrap.                             *)
(* ------------------------------------------------------------------ *)
NearWrap == PS2_BUFF_SIZE - 2

\* scan codes the translator drops, all different
DropFill(n) == [j \in 1..n |-> 80 + j]

Init ==
    \/ \E k \in {1, NumStartup} : BootState(k, MaxFrames, MaxExchanges)
    \/ LoopState(NearWrap, <<>>, NearWrap, 0, MaxFrames, MaxExchanges)
    \/ LoopState(NearWrap, DropFill(PS2_BUFF_SIZE - 1), NearWrap, 0,
                 1, MaxExchanges)
    \/ LoopState(NearWrap, <<224, 80, 31, 225, 29>>, NearWrap,
                 KEY_BUFF_SIZE - 1, 1, MaxExchanges)

Foreground ==
    \/ CmdSend
    \/ SendLow
    \/ SendHigh
    \/ SendAckLow
    \/ SendAckHigh
    \/ SendReturn
    \/ CmdRecv
    \/ CmdReturn
    \/ MainRecv
    \/ MainE1Next
    \/ MainE1Discard
    \/ MainE0Next
    \/ MainWrite

Keyboard ==
    \/ \E fr \in KbdFrames : KbdStart(fr[1], fr[2])
    \/ KbdFall
    \/ KbdRise
    \/ KbdClockFall
    \/ KbdClockRise

Host == \E cmd \in HostBytes : HostExchange(cmd)

Next == Foreground \/ Keyboard \/ Host

Spec == Init /\ [][Next]_vars

(* ------------------------------------------------------------------ *)
(* SpecRx: the receiver fed one frame, of any byte and any fault, from *)
(* Idle, with the scan code buffer empty, holding one byte, one short  *)
(* of full, or full                                                    *)
(* ------------------------------------------------------------------ *)
InitRx ==
    \E n \in {0, 1, PS2_BUFF_SIZE - 1, PS2_BUFF_SIZE} :
        LoopState(NearWrap, DropFill(n), NearWrap, 0, 1, 0)

NextRx ==
    \/ \E b \in Byte, f \in Faults : KbdStart(b, f)
    \/ KbdFall
    \/ KbdRise

SpecRx == InitRx /\ [][NextRx]_vars

\* the scan code buffer as the start state drew it
ScanRing0 == RingOf(given.si, given.raw, AckByte)
ScanIn0 == (given.si + Len(given.raw)) % PS2_BUFF_SIZE

ScanUntouched ==
    /\ ps2_scan_codes = ScanRing0
    /\ ps2_buffer_in = ScanIn0
    /\ ps2_scan_code_count = Len(given.raw)

\* falling edges of the current frame the handler has been given
EdgesFed == 11 - Len(kbd_bits)

\* C1: a valid frame of byte b, fed from Idle with room in the buffer, leaves
\* the buffer untouched up to its stop bit, and at the stop bit appends exactly
\* b once (count + 1, in-index advanced with wrap) and returns to Idle
C1_ValidFrameEnqueuedOnce ==
    (kbd_frame # <<>> /\ kbd_frame[2] = "none"
        /\ Len(given.raw) < PS2_BUFF_SIZE) =>
    IF EdgesFed < 11
    THEN ScanUntouched /\ ps2_rx_state \notin ErrorStates
    ELSE /\ ps2_scan_codes = [ScanRing0 EXCEPT ![ScanIn0] = kbd_frame[1]]
         /\ ps2_scan_code_count = Len(given.raw) + 1
         /\ ps2_buffer_in = (ScanIn0 + 1) % PS2_BUFF_SIZE
         /\ scan_pushed = Append(given.raw, kbd_frame[1])
         /\ ps2_rx_state = "PS2_IDLE"

\* a whole valid frame of 0xA5 has been stored in the last slot and the
\* in-index has wrapped
C1_Witness ==
    /\ kbd_frame = <<165, "none">>
    /\ kbd_mode = "idle"
    /\ ps2_scan_codes[PS2_BUFF_SIZE - 1] = 165
    /\ ps2_buffer_in = 0
    /\ ps2_scan_code_count = 2

\* edge of the frame that carries the inverted bit
FaultEdge(fault) ==
    CASE fault = "start" -> 1
      [] fault = "parity" -> 10
      [] fault = "stop" -> 11

FaultState(fault) ==
    CASE fault = "start" -> "PS2_RX_ERR_START"
      [] fault = "parity" -> "PS2_RX_ERR_PARITY"
      [] fault = "stop" -> "PS2_RX_ERR_STOP"

\* C2: a frame with exactly one of start bit, parity, stop bit wrong puts the
\* receiver into the matching error state at the edge carrying the wrong bit,
\* not before, and the whole frame leaves the scan code buffer untouched
C2_FaultyFrameLatched ==
    (kbd_frame # <<>> /\ kbd_frame[2] # "none") =>
    /\ ScanUntouched
    /\ scan_pushed = given.raw
    /\ IF EdgesFed >= FaultEdge(kbd_frame[2])
       THEN ps2_rx_state = FaultState(kbd_frame[2])
       ELSE ps2_rx_state \notin ErrorStates

\* a frame with a wrong parity bit has been fed to the end
C2_Witness ==
    /\ kbd_frame = <<165, "parity">>
    /\ kbd_mode = "idle"
    /\ ps2_rx_state = "PS2_RX_ERR_PARITY"

\* C5: a valid frame whose stop bit arrives with 32 bytes in the buffer is
\* dropped: bytes, in-index and count stay as they were and the receiver is
\* in ErrorOverrun, not Idle
C5_FullBufferOverrun ==
    (kbd_frame # <<>> /\ kbd_frame[2] = "none"
        /\ Len(given.raw) = PS2_BUFF_SIZE) =>
    /\ ScanUntouched
    /\ scan_pushed = given.raw
    /\ IF EdgesFed < 11
       THEN ps2_rx_state \notin ErrorStates
       ELSE ps2_rx_state = "PS2_RX_ERR_OVERRUN"

\* the stop bit of a valid frame has arrived with the buffer full
C5_Witness ==
    /\ kbd_frame = <<165, "none">>
    /\ kbd_bits = <<>>
    /\ ps2_scan_code_count = PS2_BUFF_SIZE
    /\ ps2_rx_state = "PS2_RX_ERR_OVERRUN"

(* ------------------------------------------------------------------ *)
(* Claims checked in Spec                                              *)
(* ------------------------------------------------------------------ *)
\* C3 as stated: once the receiver is in an error state, no step of the
\* program changes its state again
C3_ErrorStatesTerminal ==
    [][(ps2_rx_state \in ErrorStates) =>
          (ps2_rx_state' = ps2_rx_state)]_vars

\* C3, amended: an error state is left only by the entry of ps2_send(), which
\* puts the receiver back to Idle and runs only for the start-up commands; no
\* clock edge, read of the buffer or host exchange changes an error state
C3_ErrorLatchedUntilSend ==
    [][(ps2_rx_state \in ErrorStates /\ ps2_rx_state' # ps2_rx_state) =>
          /\ pc = "cmd_send"
          /\ pc' = "send_low"
          /\ boot <= NumStartup
          /\ ps2_rx_state' = "PS2_IDLE"]_vars

\* the parameter byte of a start-up command is being sent right after a
\* frame with a wrong start bit: the send has put the receiver back to Idle
C3_Witness ==
    /\ kbd_frame = <<30, "start">>
    /\ pc = "send_low"
    /\ cmd_phase = 2
    /\ tx.ps2_tx_bit_count = 0
    /\ ps2_rx_state = "PS2_IDLE"

IsPrefix(s, t) == Len(s) <= Len(t) /\ SubSeq(t, 1, Len(s)) = s

\* the n entries of ring from index out on, oldest first
Live(ring, out, n) == [j \in 1..n |-> ring[(out + j - 1) % PS2_BUFF_SIZE]]

\* C7: with each queue operation one step, what has been popped from a queue
\* is a prefix of what has been pushed to it, and the entries in the queue are
\* the rest of what has been pushed, in order
C7_QueuesAreFifo ==
    /\ IsPrefix(scan_popped, scan_pushed)
    /\ scan_pushed =
         scan_popped \o Live(ps2_scan_codes, ps2_buffer_out, ps2_scan_code_count)
    /\ IsPrefix(key_popped, key_pushed)
    /\ key_pushed = key_popped \o Live(key_codes, key_buffer_out, key_code_count)

\* both out-indices have wrapped: five scan codes popped from index 30 on, two
\* key codes served to the host from index 30 on, and two key codes pushed
\* behind the 31 that were waiting
C7_Witness ==
    /\ given.kf = KEY_BUFF_SIZE - 1
    /\ scan_popped = <<224, 80, 31, 225, 29>>
    /\ ps2_buffer_out = 3
    /\ key_popped = <<KeyFill(0), KeyFill(1)>>
    /\ key_buffer_out = 0
    /\ key_pushed = KeyFillSeq(KEY_BUFF_SIZE - 1) \o <<80, 31>>

(* ------------------------------------------------------------------ *)
(* SpecPreempt: the loop with ps2_recv() and write_key() followed      *)
(* statement by statement, the keyboard sending valid frames and the   *)
(* host exchanging bytes in between.  Either 31 scan codes that the    *)
(* translator drops wait and the key code buffer is empty, or three    *)
(* that it keeps wait and the key code buffer is one short of full.    *)
(* ------------------------------------------------------------------ *)
InitPreempt ==
    \/ LoopState(NearWrap, DropFill(PS2_BUFF_SIZE - 1), NearWrap, 0,
                 MaxFrames, MaxExchanges)
    \/ LoopState(NearWrap, KeyFillSeq(3), NearWrap, KEY_BUFF_SIZE - 1,
                 MaxFrames, MaxExchanges)

NextPreempt ==
    \/ RecvTest
    \/ RecvElem
    \/ RecvLoad
    \/ RecvStore
    \/ RecvInc
    \/ RecvWrap
    \/ WriteTest
    \/ WriteElem
    \/ WriteLoad
    \/ WriteStore
    \/ WriteInc
    \/ WriteWrap
    \/ KbdStart(30, "none")
    \/ KbdFall
    \/ KbdRise
    \/ Host

SpecPreempt == InitPreempt /\ [][NextPreempt]_vars

\* C4 as stated: in every state both counts are within 0..32 and all four
\* indices within 0..31
C4_CountsAndIndicesInRange ==
    /\ ps2_scan_code_count \in 0..PS2_BUFF_SIZE
    /\ key_code_count \in 0..KEY_BUFF_SIZE
    /\ ps2_buffer_in \in Ring
    /\ ps2_buffer_out \in Ring
    /\ key_buffer_in \in Ring
    /\ key_buffer_out \in Ring

\* C4, amended: both counts are within 0..32 in every state, also when a
\* handler runs between the load and the store of a count; the indices the
\* handlers advance are within 0..31 in every state; an index the foreground
\* advances is within 0..31 except between its increment and its comparison
\* with the buffer size, where it is within 1..32
C4_InRangeButForTheWrap ==
    /\ ps2_scan_code_count \in 0..PS2_BUFF_SIZE
    /\ key_code_count \in 0..KEY_BUFF_SIZE
    /\ ps2_buffer_in \in Ring
    /\ key_buffer_out \in Ring
    /\ IF qop.at = "recv_wrap"
       THEN ps2_buffer_out \in 1..PS2_BUFF_SIZE
       ELSE ps2_buffer_out \in Ring
    /\ IF qop.at = "wk_wrap"
       THEN key_buffer_in \in 1..KEY_BUFF_SIZE
       ELSE key_buffer_in \in Ring

\* write_key() has filled the key code buffer and stands between the
\* increment of the in-index and its wrap, after the host has taken a byte
C4_Witness ==
    /\ qop.at = "wk_wrap"
    /\ key_buffer_in = KEY_BUFF_SIZE
    /\ key_code_count = KEY_BUFF_SIZE
    /\ key_popped # <<>>

(* ------------------------------------------------------------------ *)
(* SpecXlat: the translator alone, given one raw sequence in the scan  *)
(* code buffer: one byte, 0xe0 and a byte, 0xe1 and a byte, 0xe1 0x1d  *)
(* or 0xe1 0x9d or 0xe1 0xe0 and a byte, or 0x1e and a byte.  The key  *)
(* code buffer is empty, one short of full, or full.                   *)
(* ------------------------------------------------------------------ *)
XlatRaws ==
    {<<b>> : b \in Byte}
    \cup {<<l, b>> : l \in {224, 225, 30}, b \in Byte}
    \cup {<<225, m, b>> : m \in {29, 157, 224}, b \in Byte}

InitXlat ==
    \E raw \in XlatRaws, kf \in {0, KEY_BUFF_SIZE - 1, KEY_BUFF_SIZE} :
        LoopState(NearWrap, raw, NearWrap, kf, 0, 0)

NextXlat ==
    \/ MainRecv
    \/ MainE1Next
    \/ MainE1Discard
    \/ MainE0Next
    \/ MainWrite

SpecXlat == InitXlat /\ [][NextXlat]_vars

\* the key code buffer as the start state drew it
KeyRing0 == RingOf(given.ki, KeyFillSeq(given.kf), KeyRest)

KeyUntouched ==
    /\ key_codes = KeyRing0
    /\ key_buffer_in = (given.ki + given.kf) % KEY_BUFF_SIZE
    /\ key_buffer_out = given.ki
    /\ key_code_count = given.kf
    /\ key_pushed = KeyFillSeq(given.kf)

\* C6: write_key() called with 32 entries in the key code buffer returns -1
\* and leaves bytes, in-index and count as they were, main is back at the head
\* of the loop, and with the buffer full from the start it stays as it was
\* whatever the translator emits, the receiver in no error state
C6_FullKeyBufferDrops ==
    /\ [](given.kf = KEY_BUFF_SIZE =>
            KeyUntouched /\ ps2_rx_state \notin ErrorStates)
    /\ [][(pc = "write" /\ key_code_count = KEY_BUFF_SIZE) =>
            /\ wk_result' = -1
            /\ pc' = "loop"
            /\ UNCHANGED <<keyq, key_pushed, rxvars>>]_vars

\* two key codes in a row have been emitted against the full buffer
C6_Witness ==
    /\ given.kf = KEY_BUFF_SIZE
    /\ given.raw = <<30, 31>>
    /\ scan_popped = <<30, 31>>
    /\ wk_result = -1
    /\ pc = "loop"

\* C10: of 0xe1 0x1d x and 0xe1 0x9d x, for every byte x, the translator
\* takes the three bytes, one read each, never reaches write_key() and leaves
\* the key code buffer as it was
C10_PauseDiscarded ==
    (Len(given.raw) = 3 /\ given.raw[1] = 225 /\ given.raw[2] \in {29, 157}) =>
    /\ KeyUntouched
    /\ pc \in {"loop", "e1_next", "e1_discard"}
    /\ pc = "e1_next" => scan_popped = <<225>>
    /\ pc = "e1_discard" => scan_popped = SubSeq(given.raw, 1, 2)
    /\ pc = "loop" => scan_popped \in {<<>>, given.raw}
    /\ ps2_scan_code_count = 3 - Len(scan_popped)

\* the break sequence of Pause followed by a code that alone would be kept
\* has been taken whole
C10_Witness ==
    /\ given.raw = <<225, 157, 30>>
    /\ scan_popped = given.raw
    /\ pc = "loop"
    /\ scan_code = -1

(* ------------------------------------------------------------------ *)
(* SpecHost: the loop turning n waiting scan codes, each a key code    *)
(* that is kept, into key codes, and the host exchanging bytes at any  *)
(* point, n and some more times.  The key code buffer starts empty and *)
(* USIDR holds 0, as ioinit() or an exchange on an empty buffer leaves *)
(* it.                                                                 *)
(* ------------------------------------------------------------------ *)
HostCmds == {0, 165}

InitHost ==
    \E n \in {0, 1, 2, KEY_BUFF_SIZE - 1, KEY_BUFF_SIZE} :
        LoopState(NearWrap, KeyFillSeq(n), NearWrap, 0, 0, n + ExtraExchanges)

NextHost ==
    \/ MainRecv
    \/ MainWrite
    \/ \E cmd \in HostCmds : HostExchange(cmd)

SpecHost == InitHost /\ [][NextHost]_vars

\* C8 as stated: with N key codes put into the empty buffer before the first
\* exchange, exchanges 1..N return them in order and the later ones return 0
C8_NextNExchanges ==
    (host_pure /\ host_n >= 1) =>
    host_last = IF host_n <= Len(given.raw) THEN given.raw[host_n] ELSE 0

\* C8, amended: with N key codes put into the empty buffer before the first
\* exchange, the first exchange returns the byte staged before, 0, exchanges
\* 2..N+1 return the N key codes in order, and the later ones return 0
C8_KeysOneTransferLater ==
    (host_pure /\ host_n >= 1) =>
    host_last = IF host_n = 1 THEN 0
                ELSE IF host_n <= Len(given.raw) + 1
                THEN given.raw[host_n - 1]
                ELSE 0

\* 32 key codes were waiting; 34 exchanges have returned 0, the 32 and 0
C8_Witness ==
    /\ Len(given.raw) = KEY_BUFF_SIZE
    /\ host_pure
    /\ host_n = KEY_BUFF_SIZE + 2
    /\ key_popped = given.raw
    /\ host_last = 0

Allow8 == {80, 208, 77, 205, 75, 203, 72, 200}

\* low seven bits of the codes that are dropped
DropLow7 ==
    {15, 27, 29, 40, 41, 43, 55, 56, 58, 69, 70, 71, 73, 74, 76, 78, 79,
     81, 82, 83, 85, 91, 92, 93}

\* the key codes a code b that reaches the filter gives: none, or one
KeptAs(b) ==
    IF b % 128 \in DropLow7 \/ b % 128 > 80 \/ b = 0
    THEN <<>>
    ELSE IF b % 128 = 54 THEN <<b - 12>> ELSE <<b>>

\* the translator has taken the whole sequence and is back at the loop head
XlatDone == pc = "loop" /\ scan_popped = given.raw /\ given.raw # <<>>

\* the key codes written since the start
KeyOut == SubSeq(key_pushed, given.kf + 1, Len(key_pushed))

\* C11 as stated: after 0xe1 the translator takes exactly two more bytes,
\* whatever they are, and writes no key code
C11_PauseLeadTakesTwo ==
    (given.raw # <<>> /\ given.raw[1] = 225) =>
    /\ KeyUntouched
    /\ pc = "loop" => Len(scan_popped) \in {0, 3}

\* C11, amended: after 0xe1 the translator takes one more byte; only when
\* that byte is 0x1d or 0x9d does it take a third and write nothing; a 0xe0
\* there is handled as the lead of an extended code, and any other byte goes
\* through the filter as if it had come alone and may be written
C11_PauseLeadThenSecond ==
    (Len(given.raw) >= 2 /\ given.raw[1] = 225) =>
    /\ (Len(given.raw) = 2 /\ scan_popped = given.raw) =>
          pc \in (IF given.raw[2] \in {29, 157} THEN {"e1_discard"}
                  ELSE IF given.raw[2] = 224 THEN {"e0_next"}
                  ELSE {"write", "loop"})
    /\ (XlatDone /\ given.kf < KEY_BUFF_SIZE) =>
          KeyOut = IF given.raw[2] \in {29, 157} THEN <<>>
                   ELSE IF given.raw[2] = 224
                   THEN (IF given.raw[3] \in Allow8
                         THEN KeptAs(given.raw[3]) ELSE <<>>)
                   ELSE KeptAs(given.raw[2])

\* 0xe1 0x1e has been taken as two bytes and 0x1e written
C11_Witness ==
    /\ given.raw = <<225, 30>>
    /\ given.kf = 0
    /\ XlatDone
    /\ key_pushed = <<30>>
    /\ key_code_count = 1

\* C12: of 0xe0 x with room in the key code buffer the translator takes the
\* two bytes and writes the one key code x when x is one of the eight kept
\* codes, and nothing for any other x; nothing is written before x is taken
C12_ExtendedAllowList ==
    (Len(given.raw) = 2 /\ given.raw[1] = 224 /\ given.kf < KEY_BUFF_SIZE) =>
    /\ pc \in {"loop", "e0_next", "write"}
    /\ pc = "e0_next" => scan_popped = <<224>> /\ KeyOut = <<>>
    /\ pc = "write" =>
          /\ scan_popped = given.raw
          /\ given.raw[2] \in Allow8
          /\ scan_code = given.raw[2]
          /\ KeyOut = <<>>
    /\ XlatDone =>
          KeyOut = IF given.raw[2] \in Allow8 THEN <<given.raw[2]>> ELSE <<>>
    /\ ps2_scan_code_count = 2 - Len(scan_popped)

\* 0xe0 0xd0 has been taken and 0xd0 written into the last free slot
C12_Witness ==
    /\ given.raw = <<224, 208>>
    /\ given.kf = KEY_BUFF_SIZE - 1
    /\ XlatDone
    /\ KeyOut = <<208>>
    /\ key_code_count = KEY_BUFF_SIZE

\* C13: a single code whose low seven bits are 54, with room in the key code
\* buffer, is written once as 42 with bit 7 of the code: 0x36 as 0x2a, 0xb6 as
\* 0xaa
C13_KeypadSlashRemapped ==
    (Len(given.raw) = 1 /\ given.raw[1] % 128 = 54
        /\ given.kf < KEY_BUFF_SIZE) =>
    /\ pc = "write" => KeyOut = <<>>
    /\ XlatDone =>
          /\ KeyOut = <<42 + 128 * (given.raw[1] \div 128)>>
          /\ given.raw[1] = 54 => KeyOut = <<42>>
          /\ given.raw[1] = 182 => KeyOut = <<170>>
          /\ key_codes[(given.ki + given.kf) % KEY_BUFF_SIZE] = KeyOut[1]
          /\ key_code_count = given.kf + 1

\* 0xb6 has been written as 0xaa
C13_Witness ==
    /\ given.raw = <<182>>
    /\ given.kf = 0
    /\ XlatDone
    /\ key_codes[given.ki] = 170
    /\ key_code_count = 1

\* C14: a code whose low seven bits are in the discard table gives no key
\* code, with bit 7 clear or set: alone it leaves the key code buffer as it
\* was, and after a kept code only that code is written
C14_DiscardTableDrops ==
    /\ (Len(given.raw) = 1 /\ given.raw[1] % 128 \in DropLow7) =>
          KeyUntouched /\ pc = "loop"
    /\ (Len(given.raw) = 2 /\ given.raw[1] = 30
          /\ given.raw[2] % 128 \in DropLow7 /\ given.kf < KEY_BUFF_SIZE
          /\ XlatDone) =>
          KeyOut = <<30>>

\* the break code of Tab has been taken and nothing written
C14_Witness ==
    /\ given.raw = <<143>>
    /\ given.kf = 0
    /\ XlatDone
    /\ key_code_count = 0

\* C15: every byte written to the key code buffer, and every byte in it, is
\* not 0 and has low seven bits of at most 0x50; a code that is 0 or whose
\* low seven bits exceed 0x50 is never written
C15_KeyCodesInRange ==
    /\ \A j \in 1..Len(key_pushed) :
          key_pushed[j] # 0 /\ key_pushed[j] % 128 <= 80
    /\ \A j \in 1..key_code_count :
          LET k == key_codes[(key_buffer_out + j - 1) % KEY_BUFF_SIZE]
          IN  k # 0 /\ k % 128 <= 80
    /\ (Len(given.raw) = 1
          /\ (given.raw[1] = 0 \/ given.raw[1] % 128 > 80)) => KeyUntouched

\* 0x80, not 0 and with low seven bits 0, has been written
C15_Witness ==
    /\ given.raw = <<128>>
    /\ given.kf = 0
    /\ XlatDone
    /\ KeyOut = <<128>>

(* ------------------------------------------------------------------ *)
(* SpecSend: ps2_send() alone, for every byte, called with the         *)
(* receiver in any state.  The keyboard clocks the bits in and         *)
(* acknowledges or not; after the return it clocks the ten bits it     *)
(* took back out behind a start bit, into the receiver.                *)
(* ------------------------------------------------------------------ *)
SendState(b, st) ==
    /\ Quiet
    /\ ps2_rx_state = st
    /\ ps2_rx_data_byte = IF st = "PS2_IDLE" THEN 0 ELSE PS2_KH_ACK
    /\ ps2_rx_bit_count = IF st = "PS2_IDLE" THEN 0 ELSE 8
    /\ ps2_rx_parity = IF st = "PS2_IDLE" THEN 0 ELSE Ones(PS2_KH_ACK)
    /\ pc = "cmd_send"
    /\ boot = NumStartup + 1
    /\ cmd_phase = 2
    /\ scan_code = -1
    /\ temp_scan_code = 0
    /\ tx = [byte |-> 0, ps2_tx_parity |-> 0, ps2_tx_bit_count |-> 0,
             ps2_data_bit |-> 0, result |-> 0]
    /\ sreg_i = TRUE
    /\ ps2_scan_codes = [i \in Ring |-> 0]
    /\ ps2_buffer_in = 0
    /\ ps2_buffer_out = 0
    /\ ps2_scan_code_count = 0
    /\ key_codes = [i \in Ring |-> 0]
    /\ key_buffer_in = 0
    /\ key_buffer_out = 0
    /\ key_code_count = 0
    /\ frames = 1
    /\ scan_pushed = <<>>
    /\ key_pushed = <<>>
    /\ given = [at |-> "send", si |-> 0, raw |-> <<b>>, ki |-> 0, kf |-> 0,
                exchanges |-> 0]

InitSend == \E b \in Byte, st \in RxStates : SendState(b, st)

\* the call ps2_send(b)
SendAny == pc = "cmd_send" /\ ps2_sendEntry(given.raw[1])

\* the keyboard sends back, behind a start bit, the ten bits it took
KbdEcho ==
    /\ pc = "cmd_recv"
    /\ kbd_mode = "idle"
    /\ ps2_clock = 1
    /\ frames > 0
    /\ Len(kbd_rx) = 10
    /\ frames' = frames - 1
    /\ kbd_mode' = "tx"
    /\ kbd_bits' = kbd_rx
    /\ ps2_clock' = 0
    /\ ps2_data' = 0
    /\ PinChange(0, 0)
    /\ UNCHANGED <<keyq, usivars, sreg_i, usi_oif, fgvars, kbd_frame, kbd_rx,
                   hostvars, given, scan_popped, key_pushed, key_popped>>

NextSend ==
    \/ SendAny
    \/ SendLow
    \/ SendHigh
    \/ SendAckLow
    \/ SendAckHigh
    \/ SendReturn
    \/ KbdClockFall
    \/ KbdClockRise
    \/ KbdEcho
    \/ KbdFall
    \/ KbdRise

SpecSend == InitSend /\ [][NextSend]_vars

\* the ten bits of the claim for byte b
SentBits(b) ==
    [i \in 1..10 |-> IF i <= 8 THEN (b \div 2^(i - 1)) % 2
                     ELSE IF i = 9 THEN (IF Ones(b) % 2 = 0 THEN 1 ELSE 0)
                     ELSE 1]

Sending == pc \in {"send_low", "send_high", "send_ack_low", "send_ack_high",
                   "send_delay", "cmd_recv"}

\* C16: for every byte b the keyboard takes from ps2_send(b), in order, the
\* eight bits of b from the least significant, the odd-parity bit and a stop
\* bit 1; and the receiver, fed a start bit 0 and these ten bits from idle,
\* stores b, once, and passes through no error state
C16_SendFramesByte ==
    given.at = "send" =>
    /\ Sending => /\ Len(kbd_rx) <= 10
                  /\ kbd_rx = SubSeq(SentBits(given.raw[1]), 1, Len(kbd_rx))
    /\ pc \in {"send_ack_low", "send_ack_high", "send_delay", "cmd_recv"} =>
          kbd_rx = SentBits(given.raw[1])
    /\ Sending => ps2_rx_state \notin ErrorStates
    /\ pc \in {"send_low", "send_high", "send_ack_low", "send_ack_high"} =>
          ps2_rx_state = "PS2_IDLE"
    /\ scan_pushed \in {<<>>, given.raw}
    /\ (frames = 0 /\ kbd_mode = "idle") =>
          /\ scan_pushed = given.raw
          /\ ps2_rx_state = "PS2_IDLE"
          /\ ps2_scan_codes[0] = given.raw[1]
          /\ ps2_scan_code_count = 1

\* 0xed went out and came back: the keyboard took 1011 0111 then parity 1 and
\* stop 1, and the receiver stored 0xed
C16_Witness ==
    /\ given.at = "send"
    /\ given.raw = <<PS2_HK_LEDS>>
    /\ kbd_rx = <<1, 0, 1, 1, 0, 1, 1, 1, 1, 1>>
    /\ frames = 0
    /\ kbd_mode = "idle"
    /\ scan_pushed = <<PS2_HK_LEDS>>

\* C17: the result of ps2_send() is 0 when the data line is low at the
\* acknowledge clock and -1 when it is high, and no other value
C17_SendReturnsZeroOrMinusOne ==
    /\ (pc = "send_ack_high" /\ ps2_clock = 0) =>
          tx.result = IF ps2_data = 0 THEN 0 ELSE -1
    /\ pc = "send_delay" => tx.result \in {0, -1}

(* ------------------------------------------------------------------ *)
(* SpecCmd: the keyboard commands.  main is about to call              *)
(* kdb_led_ctrl(), kbd_typematic_set() or kbd_code_set(1); the         *)
(* keyboard acknowledges each send or not, and answers with            *)
(* acknowledge, resend or error.                                       *)
(* ------------------------------------------------------------------ *)
CmdAnswers == {PS2_KH_ACK, PS2_KH_RESEND, 252}

InitCmd ==
    \E k \in {1, NumStartup - 1, NumStartup} : BootState(k, MaxFrames, 0)

NextCmd ==
    \/ CmdSend
    \/ SendLow
    \/ SendHigh
    \/ SendAckLow
    \/ SendAckHigh
    \/ SendReturn
    \/ CmdRecv
    \/ CmdReturn
    \/ \E b \in CmdAnswers : KbdStart(b, "none")
    \/ KbdFall
    \/ KbdRise
    \/ KbdClockFall
    \/ KbdClockRise

SpecCmd == InitCmd /\ [][NextCmd]_vars

\* the command main started with, and the bytes its calls of ps2_send() carry
FirstCmd == StartupCmds[given.si \div 2 + 1]

OpcodeOf(c) == IF c.fn = "kdb_led_ctrl" THEN 237
               ELSE IF c.fn = "kbd_code_set" THEN 240 ELSE 243

InFirstCmd == boot = given.si \div 2 + 1

\* the bytes the first command has taken from the scan code buffer
Taken == scan_popped

C18_State ==
    InFirstCmd =>
    /\ cmd_phase \in {1, 2}
    /\ Len(Taken) <= 2
    \* a send is under way or over: the keyboard has the opcode in the first
    \* round and the parameter in the second
    /\ pc \in {"send_ack_low", "send_ack_high", "send_delay", "cmd_recv"} =>
          kbd_rx = SentBits(IF cmd_phase = 1 THEN OpcodeOf(FirstCmd)
                            ELSE FirstCmd.arg)
    \* the second round follows an acknowledge, taken first
    /\ (cmd_phase = 2 /\ pc # "cmd_ret") => Taken = <<PS2_KH_ACK>>
    /\ (cmd_phase = 1 /\ pc # "cmd_ret") => Taken = <<>>
    \* the return value is the last byte taken
    /\ pc = "cmd_ret" =>
          /\ Taken # <<>>
          /\ temp_scan_code = Taken[Len(Taken)]
          /\ Len(Taken) = cmd_phase
          /\ cmd_phase = 2 => Taken[1] = PS2_KH_ACK
          /\ cmd_phase = 1 => Taken[1] # PS2_KH_ACK

C18_Step ==
    InFirstCmd =>
    \* ps2_send() is entered from the start of the command or after an
    \* acknowledge of the opcode, never again
    /\ (pc # "cmd_send" /\ pc' = "cmd_send") =>
          \/ pc = "cmd_recv" /\ cmd_phase = 1 /\ cmd_phase' = 2
                /\ temp_scan_code' = PS2_KH_ACK
          \/ pc = "cmd_ret" /\ boot' = boot + 1
    \* whatever ps2_send() returns, the command goes on to take a byte
    /\ pc = "send_delay" => pc' \in {"send_delay", "cmd_recv"}
    /\ (pc = "cmd_recv" /\ pc' # "cmd_recv") =>
          /\ Taken' = Append(Taken, temp_scan_code')
          /\ pc' = IF cmd_phase = 1 /\ temp_scan_code' = PS2_KH_ACK
                   THEN "cmd_send" ELSE "cmd_ret"

WedgeFrames == {<<30, "none">>, <<30, "parity">>, <<30, "stop">>}

InitWedge ==
    \/ LoopState(NearWrap, <<30>>, NearWrap, 0, MaxFrames, MaxExchanges)
    \/ LoopState(NearWrap, <<225, 29, 31, 224, 80>>, NearWrap, 1, MaxFrames,
                 MaxExchanges)

LoopStep ==
    \/ MainRecv
    \/ MainE1Next
    \/ MainE1Discard
    \/ MainE0Next
    \/ MainWrite

HostStep == \E cmd \in HostBytes : HostExchange(cmd) \/ HostKeeps(cmd)

NextWedge ==
    \/ MainRecv
    \/ MainE1Next
    \/ MainE1Discard
    \/ MainE0Next
    \/ MainWrite
    \/ \E fr \in WedgeFrames : KbdStart(fr[1], fr[2])
    \/ KbdFall
    \/ KbdRise
    \/ \E cmd \in HostBytes : HostExchange(cmd)
    \/ \E cmd \in HostBytes : HostKeeps(cmd)

SpecWedge ==
    InitWedge /\ [][NextWedge]_vars /\ WF_vars(LoopStep) /\ WF_vars(HostStep)

Wedged == ps2_rx_state \in ErrorStates

\* C19: in the loop, once the receiver is in an error state it stays there
\* and no byte is stored in the scan code buffer any more, whatever frames
\* the keyboard sends; and with the host exchanging for ever, from some
\* exchange on every exchange returns 0
C19_WedgedGoesSilent ==
    /\ [][Wedged => (/\ ps2_rx_state' = ps2_rx_state
                     /\ scan_pushed' = scan_pushed
                     /\ ps2_scan_code_count' <= ps2_scan_code_count)]_vars
    /\ Wedged ~> [](Wedged /\ host_last = 0)

\* the keyboard has sent a valid frame to the receiver in an error state,
\* both buffers are drained, the host has had key codes and now gets 0
C19_Witness ==
    /\ Wedged
    /\ kbd_frame = <<30, "none">>
    /\ kbd_mode = "idle"
    /\ frames = 0
    /\ scan_pushed = given.raw
    /\ ps2_scan_code_count = 0
    /\ key_code_count = 0
    /\ key_popped # <<>>
    /\ host_n = given.exchanges
    /\ host_last = 0

\* C20: with the handlers free to run between the load and the store of the
\* foreground's updates of the counts, whenever no call of ps2_recv() or
\* write_key() is under way each count is the number of bytes put in and not
\* yet taken out, and is (in - out) mod 32, or 32 for a full buffer
C20_CountsMatchContents ==
    qop.at = "none" =>
    /\ ps2_scan_code_count = Len(scan_pushed) - Len(scan_popped)
    /\ key_code_count = Len(key_pushed) - Len(key_popped)
    /\ ps2_scan_code_count % PS2_BUFF_SIZE
          = (ps2_buffer_in - ps2_buffer_out + PS2_BUFF_SIZE) % PS2_BUFF_SIZE
    /\ key_code_count % KEY_BUFF_SIZE
          = (key_buffer_in - key_buffer_out + KEY_BUFF_SIZE) % KEY_BUFF_SIZE

\* ps2_send() between cli() and sei()
InSend == pc \in {"send_low", "send_high", "send_ack_low", "send_ack_high"}

RxZeroed ==
    /\ ps2_rx_state = "PS2_IDLE"
    /\ ps2_rx_data_byte = 0
    /\ ps2_rx_bit_count = 0
    /\ ps2_rx_parity = 0

C21_State == InSend => (~sreg_i /\ RxZeroed)

C21_Step ==
    /\ InSend =>
          /\ RxZeroed'
          /\ scan_pushed' = scan_pushed
          /\ ps2_scan_codes' = ps2_scan_codes
          /\ ps2_buffer_in' = ps2_buffer_in
          /\ ps2_scan_code_count' = ps2_scan_code_count
    /\ (~sreg_i /\ sreg_i') =>
          /\ pc = "send_ack_high"
          /\ tx.ps2_tx_bit_count = 10
          /\ ps2_clock = 1
          /\ pc' = "send_delay"

\* C21: from the entry of ps2_send() to its sei() the receiver is idle with
\* its accumulators at 0 and nothing is stored in the scan code buffer,
\* whatever clock edges occur; the I flag is set again only after the clock
\* has been seen high after the acknowledge clock, and the handler that was
\* pending then leaves the receiver idle
C21_ReceiverHeldDuringSend == []C21_State /\ [][C21_Step]_vars

\* a send entered while a frame was coming in: the receiver is back at idle,
\* clock edges of the send are pending, and the frame's byte was not stored
C21_Witness ==
    /\ given.at = "boot"
    /\ given.si > 0
    /\ pc = "send_ack_high"
    /\ pcif
    /\ ~sreg_i
    /\ kbd_frame = <<PS2_KH_ACK, "none">>
    /\ scan_pushed = <<>>
    /\ RxZeroed

\* the foreground is in ps2_recv_x() or in a wait for the clock in ps2_send()
InRecvX == pc \in {"cmd_recv", "e1_next", "e1_discard", "e0_next"}

Exchanged == host_n' # host_n

\* the exchange-complete handler has run on the byte of the exchange
Served ==
    /\ command_in' = host_sent'
    /\ ~usi_oif'
    /\ USIDR' = IF key_code_count > 0 THEN key_codes[key_buffer_out] ELSE 0

\* C22: whenever the foreground is in a blocking wait, in ps2_recv_x() or on
\* the clock line in ps2_send(), an exchange of the host is followed at once
\* by the exchange-complete handler
C22_HostServedDuringWaits ==
    [][(Exchanged /\ (InRecvX \/ InSend)) => Served]_vars

\* the part of C22 about ps2_recv_x() alone
C22_HostServedDuringRecvX == [][(Exchanged /\ InRecvX) => Served]_vars

(* ------------------------------------------------------------------ *)
(* SpecSendFair: SpecSend with a keyboard that keeps clocking and a    *)
(* foreground that keeps running: weak fairness of the clock edges the *)
(* keyboard drives during a send and of the steps of ps2_send().       *)
(* ------------------------------------------------------------------ *)
SendStep ==
    \/ SendAny
    \/ SendLow
    \/ SendHigh
    \/ SendAckLow
    \/ SendAckHigh
    \/ SendReturn

KbdClocks == KbdClockFall \/ KbdClockRise

SpecSendFair ==
    InitSend /\ [][NextSend]_vars /\ WF_vars(SendStep) /\ WF_vars(KbdClocks)

\* the clock pulses the keyboard has completed in the send under way
Pulses == Len(kbd_rx) + (IF kbd_mode = "idle" THEN 1 ELSE 0)

C23_State ==
    /\ InSend => ~sreg_i
    /\ pc = "send_low" => Pulses = tx.ps2_tx_bit_count
    /\ pc = "send_high" =>
          Pulses = tx.ps2_tx_bit_count + (IF ps2_clock = 1 THEN 1 ELSE 0)
    /\ pc = "send_ack_low" => Pulses = 10
    /\ pc = "send_ack_high" => Pulses = 10 + (IF ps2_clock = 1 THEN 1 ELSE 0)
    /\ pc = "send_delay" => (Pulses = 11 /\ sreg_i)

C23_Step ==
    \* a wait is left only at the level it waits for
    /\ (pc \in {"send_low", "send_ack_low"} /\ ps2_clock = 1) =>
          (pc' = pc /\ tx' = tx /\ ~sreg_i')
    /\ (pc \in {"send_high", "send_ack_high"} /\ ps2_clock = 0) =>
          (pc' = pc /\ tx' = tx /\ ~sreg_i')
    \* the clock moves only when the keyboard moves it
    /\ (InSend /\ ps2_clock' # ps2_clock) => (pc' = pc /\ tx' = tx)
    /\ (pc # "send_delay" /\ pc' = "send_delay") => pc = "send_ack_high"

\* C23: ps2_send() returns only after eleven clock pulses of the keyboard,
\* ten for the bits and one for the acknowledge; with the keyboard clocking
\* on, it returns with the I flag set; at a wait whose level the keyboard
\* does not produce it stays, with the I flag clear
C23_SendNeedsElevenPulses ==
    /\ []C23_State
    /\ [][C23_Step]_vars
    /\ (pc = "cmd_send") ~> (pc = "cmd_recv" /\ sreg_i)

\* ps2_send(0xfa) has returned, unacknowledged, after eleven pulses
C23_Witness ==
    /\ given.at = "send"
    /\ given.raw = <<PS2_KH_ACK>>
    /\ pc = "cmd_recv"
    /\ sreg_i
    /\ Pulses = 11
    /\ tx.result # 0

\* C24: every key code main hands to write_key() has low seven bits from 1
\* to 83, whatever bytes the keyboard has sent
C24_KeysOneToEightyThree ==
    /\ pc = "write" => (scan_code % 128) \in 1..83
    /\ \A j \in (given.kf + 1)..Len(key_pushed) :
          (key_pushed[j] % 128) \in 1..83

=============================================================================
